---- MODULE Spec2Model ----
(***************************************************************************)
(* A model of src/randomforest.py: randomized decision trees, the random   *)
(* forest built from them, majority voting and scoring.                    *)
(*                                                                         *)
(* Conventions.                                                            *)
(*  - A Python dict (insertion ordered) is a sequence of entries           *)
(*    [key, vals]; a defaultdict(list) creates an entry on first append.   *)
(*  - A feature vector is a function from 0..n-1 (Python indices) to its   *)
(*    values.  Python list positions are 0-based, TLA+ sequences 1-based;  *)
(*    the operators say which one they return.                             *)
(*  - None is 0 for node references and << >> for a question.              *)
(*  - Floats are modelled as exact rationals <<numerator, denominator>>    *)
(*    with a positive denominator.                                         *)
(*  - A raised Python exception is recorded by name in err and unwinds the *)
(*    call stack.                                                          *)
(*  - A random draw (rd.sample, rd.choice) is a nondeterministic choice    *)
(*    among its possible outcomes.                                         *)
(*  - partition, like every function that draws nothing, is one step.      *)
(***************************************************************************)
EXTENDS Integers, Sequences, FiniteSets, Bags, TLC

VARIABLES
    args,          \* the arguments of the running entry point
    nodes,         \* the heap of Node objects: node id -> Node
    stack,         \* pending decisionTree calls, innermost first
    lastCut,       \* the node and the gain of the latest bestCut of decisionTree
    tFeatures,     \* the feature list handed to decisionTree
    root,          \* the root of the tree being built
    list_trees,    \* randomForest's list_trees
    treeFeatures,  \* the tFeatures each tree of list_trees was built with
    pc,            \* position in the running entry point
    err,           \* "none" or the name of the exception raised
    guess,         \* outcome of classify
    vote,          \* outcome of forestClassify
    sampleCall,    \* a sampleDict call and its outcome
    scoreCall,     \* a score call and its outcome
    cutCall        \* a bestCut call, the candidates it drew and its outcome

vars == <<args, nodes, stack, lastCut, tFeatures, root, list_trees,
          treeFeatures, pc, err, guess, vote, sampleCall, scoreCall,
          cutCall>>

---------------------------------------------------------------------------
(* Bounds of the model. *)

MaxPoints == 3      \* vectors in a dataset
MaxForestPoints == 2  \* vectors in the dataset a forest is trained on
MaxCuts == 2        \* nb_cut_to_find_best is 1..MaxCuts
MaxDepth == 2       \* max_depth is 0..MaxDepth
MaxTrees == 2       \* nb_trees is 0..MaxTrees
MaxScoreLen == 3    \* length of the label lists given to score

---------------------------------------------------------------------------
(* Small helpers. *)

None == 0
NoQuestion == << >>

Max(a, b) == IF a >= b THEN a ELSE b

RECURSIVE SumSeq(_)
SumSeq(s) == IF s = << >> THEN 0 ELSE Head(s) + SumSeq(Tail(s))

RECURSIVE GCD(_, _)
GCD(a, b) == IF b = 0 THEN a ELSE GCD(b, a % b)

Abs(a) == IF a < 0 THEN 0 - a ELSE a

\* Exact rationals standing for Python floats.
RNorm(r) == LET g == GCD(Abs(r[1]), r[2]) IN <<r[1] \div g, r[2] \div g>>
RAdd(a, b) == <<a[1] * b[2] + b[1] * a[2], a[2] * b[2]>>
RSub(a, b) == <<a[1] * b[2] - b[1] * a[2], a[2] * b[2]>>
RMul(a, b) == <<a[1] * b[1], a[2] * b[2]>>
RLess(a, b) == a[1] * b[2] < b[1] * a[2]
RIsZero(a) == a[1] = 0
ROne == <<1, 1>>
RZero == <<0, 1>>

\* rd.sample(range(n), k): k pairwise distinct positions of 0..n-1, in the
\* order drawn.
Samples(n, k) ==
    {s \in [1..k -> 0..(n - 1)] : \A i, j \in 1..k : i # j => s[i] # s[j]}

---------------------------------------------------------------------------
(* Dictionaries label -> list of vectors. *)

\* d[k].append(v) on a defaultdict(list).
dictAppend(d, k, v) ==
    IF \E i \in DOMAIN d : d[i].key = k
    THEN [i \in DOMAIN d |->
             IF d[i].key = k THEN [d[i] EXCEPT !.vals = Append(@, v)] ELSE d[i]]
    ELSE Append(d, [key |-> k, vals |-> <<v>>])

\* [len(l) for l in dic.values()]
lens(dic) == [i \in DOMAIN dic |-> Len(dic[i].vals)]

lenDictValues(dic) == SumSeq(lens(dic))

\* points = []; for line in data.values(): points.extend(line)
RECURSIVE points(_)
points(dic) == IF dic = << >> THEN << >> ELSE Head(dic).vals \o points(Tail(dic))

gini(data) ==
    LET n == lenDictValues(data)
        sq == SumSeq([i \in DOMAIN data |-> Len(data[i].vals) * Len(data[i].vals)])
    IN  IF n = 0 THEN ROne ELSE RNorm(<<n * n - sq, n * n>>)

\* Only called on a non-empty c: lenDictValues(c) = 0 raises ZeroDivisionError
\* (see bestCut).
infoGain(c, c1, c2) ==
    LET p == <<lenDictValues(c1), lenDictValues(c)>>
    IN  RNorm(RSub(gini(c), RAdd(RMul(p, gini(c1)), RMul(RSub(ROne, p), gini(c2)))))

---------------------------------------------------------------------------
(* Decision tree. *)

Node(data) ==
    [father |-> None, left_son |-> None, right_son |-> None,
     data |-> data, question |-> NoQuestion]

isLeaf(n) == n.left_son = None /\ n.right_son = None

\* Node.depth
RECURSIVE depth(_, _)
depth(ns, n) ==
    IF ns[n].right_son = None /\ ns[n].left_son = None
    THEN 0
    ELSE LET max_left == IF ns[n].left_son # None
                         THEN Max(depth(ns, ns[n].left_son), 0) ELSE 0
             max_right == IF ns[n].right_son # None
                          THEN Max(depth(ns, ns[n].right_son), 0) ELSE 0
         IN  (IF max_left >= max_right THEN max_left ELSE max_right) + 1

\* goesLeftOfCut with <= for <.
goesLeftOfCutOrEqual(v, feature, decisional_value) ==
    v[feature] <= decisional_value

\* The test that files a vector in c1 while a cut is generated.
goesLeftOfCut(v, feature, decisional_value) == v[feature] < decisional_value

\* for v in l: file v under key in c1 or in c2.  acc = [c1, c2].
RECURSIVE cutValues(_, _, _, _, _)
cutValues(key, l, feature, decisional_value, acc) ==
    IF l = << >>
    THEN acc
    ELSE cutValues(key, Tail(l), feature, decisional_value,
             IF goesLeftOfCut(Head(l), feature, decisional_value)
             THEN [acc EXCEPT !.c1 = dictAppend(@, key, Head(l))]
             ELSE [acc EXCEPT !.c2 = dictAppend(@, key, Head(l))])

\* for key, l in node.data.items(): ...
RECURSIVE cutItems(_, _, _, _)
cutItems(items, feature, decisional_value, acc) ==
    IF items = << >>
    THEN acc
    ELSE cutItems(Tail(items), feature, decisional_value,
             cutValues(Head(items).key, Head(items).vals, feature,
                       decisional_value, acc))

\* The random choices of one generateCut: the feature rd.sample(features, 1)
\* picks and the value rd.choice picks among the points' values of that
\* feature; no value is drawn (0 here) when the data has no label.
Draws(data, features) ==
    UNION {{[feature |-> features[fi], value |-> t] :
               t \in IF Len(data) # 0
                     THEN {points(data)[pi][features[fi]] :
                              pi \in DOMAIN points(data)}
                     ELSE {0}} :
           fi \in DOMAIN features}

generateCut(data, features, draw) ==
    LET random_feature == <<draw.feature>>
        decisional_value == IF Len(data) # 0 THEN draw.value ELSE 0
        cut == IF Len(data) # 0
               THEN cutItems(data, random_feature[1], decisional_value,
                             [c1 |-> << >>, c2 |-> << >>])
               ELSE [c1 |-> << >>, c2 |-> << >>]
    IN  [c1 |-> cut.c1, c2 |-> cut.c2, random_feature |-> random_feature,
         decisional_value |-> decisional_value]

\* improves with >= for >.
improvesOrEqual(info, best_info) == ~RLess(info, best_info)

\* if(info > best_info)
improves(info, best_info) == RLess(best_info, info)

\* One iteration of the loop of bestCut: candidate c against the best so far.
bestCutStep(data, c, best) ==
    IF Len(c.c1) = 0 \/ Len(c.c2) = 0
    THEN best
    ELSE LET info == infoGain(data, c.c1, c.c2) IN
         IF improves(info, best.best_info)
         THEN [best_info |-> info, best |-> c]
         ELSE best

\* The loop of bestCut over the candidates after the first.
RECURSIVE bestCutLoop(_, _, _)
bestCutLoop(data, cands, best) ==
    IF cands = << >>
    THEN best
    ELSE bestCutLoop(data, Tail(cands), bestCutStep(data, Head(cands), best))

\* The number of generateCut calls of bestCut(node, nb_cut, features).
numDraws(nb_cut) == 1 + Max(nb_cut - 1, 0)

\* The candidates the generateCut calls of one bestCut can return, in the
\* order drawn.
Candidates(data, nb_cut, features) ==
    [1..numDraws(nb_cut) ->
        {generateCut(data, features, draw) : draw \in Draws(data, features)}]

NoCutResult ==
    [err |-> "none", best_info |-> RZero, c1 |-> << >>, c2 |-> << >>,
     question |-> NoQuestion]

\* The best cut before the loop of bestCut: the first candidate.
firstBest(data, first) ==
    [best_info |-> infoGain(data, first.c1, first.c2), best |-> first]

\* What bestCut returns for the best cut b.
cutResult(b) ==
    [err |-> "none", best_info |-> b.best_info, c1 |-> b.best.c1,
     c2 |-> b.best.c2,
     question |-> <<b.best.random_feature[1], b.best.decisional_value>>]

\* bestCut on the candidates cands (the generateCut results, in the order
\* drawn).  infoGain of the first candidate divides by lenDictValues(data).
bestCut(data, cands) ==
    IF lenDictValues(data) = 0
    THEN [NoCutResult EXCEPT !.err = "ZeroDivisionError"]
    ELSE cutResult(bestCutLoop(data, Tail(cands), firstBest(data, Head(cands))))

\* The best cuts n more iterations of bestCut's loop can reach from the best
\* cuts bests when each iteration draws its candidate among cs.
RECURSIVE loopOutcomes(_, _, _, _)
loopOutcomes(data, cs, n, bests) ==
    IF n = 0
    THEN bests
    ELSE loopOutcomes(data, cs, n - 1,
             {bestCutStep(data, c, b) : c \in cs, b \in bests})

\* Every value bestCut(node, nb_cut, features) can return: bestCut over
\* Candidates(data, nb_cut, features), computed iteration by iteration.
bestCutOutcomes(data, nb_cut, features) ==
    IF lenDictValues(data) = 0
    THEN {[NoCutResult EXCEPT !.err = "ZeroDivisionError"]}
    ELSE LET cs == {generateCut(data, features, draw) :
                       draw \in Draws(data, features)}
         IN  {cutResult(b) :
                 b \in loopOutcomes(data, cs, numDraws(nb_cut) - 1,
                                    {firstBest(data, c) : c \in cs})}

\* partition forgetting node.question = question.
partitionNoQuestion(ns, node, c1, c2, question) ==
    LET l == Len(ns) + 1
        r == Len(ns) + 2
    IN  Append(Append([ns EXCEPT ![node].left_son = l, ![node].right_son = r],
                      [Node(c1) EXCEPT !.father = node]),
               [Node(c2) EXCEPT !.father = node])

\* partition(node, c1, c2, question): the two new nodes take the next two ids.
partition(ns, node, c1, c2, question) ==
    LET l == Len(ns) + 1
        r == Len(ns) + 2
    IN  Append(Append([ns EXCEPT ![node].question = question,
                                 ![node].left_son = l,
                                 ![node].right_son = r],
                      [Node(c1) EXCEPT !.father = node]),
               [Node(c2) EXCEPT !.father = node])

\* stopsHere without the depth test.
stopsHereNoDepth(data, gain, node_depth, max_depth) ==
    RIsZero(gini(data)) \/ RIsZero(gain)

\* The test of decisionTree that returns the node as a leaf.
stopsHere(data, gain, node_depth, max_depth) ==
    RIsZero(gini(data)) \/ RIsZero(gain) \/ node_depth = max_depth

\* The budget decisionTree hands to its two recursive calls.
childBudget(max_depth) == max_depth - 1

NoCut == [node |-> None, best_info |-> RZero]

\* One call of decisionTree, up to its recursive calls, which are pushed on
\* the stack (left first).  An exception unwinds every pending call.
DecisionTreeCall ==
    /\ pc = "build"
    /\ stack # << >>
    /\ LET frame == Head(stack)
           node == frame.node
           data == nodes[node].data
       IN  \E cut \in bestCutOutcomes(data, args.nb_cut, tFeatures) :
             /\ lastCut' = [node |-> node, best_info |-> cut.best_info]
             /\ IF cut.err # "none"
                THEN /\ err' = cut.err
                     /\ pc' = "failed"
                     /\ stack' = << >>
                     /\ nodes' = nodes
                ELSE IF stopsHere(data, cut.best_info, depth(nodes, node),
                                  frame.max_depth)
                THEN /\ stack' = Tail(stack)
                     /\ UNCHANGED <<nodes, err, pc>>
                ELSE /\ nodes' = partition(nodes, node, cut.c1, cut.c2,
                                           cut.question)
                     /\ stack' =
                          <<[node |-> Len(nodes) + 1,
                             max_depth |-> childBudget(frame.max_depth)],
                            [node |-> Len(nodes) + 2,
                             max_depth |-> childBudget(frame.max_depth)]>>
                          \o Tail(stack)
                     /\ UNCHANGED <<err, pc>>
    /\ UNCHANGED <<args, tFeatures, root, list_trees, treeFeatures, guess,
                   vote, sampleCall, scoreCall, cutCall>>

\* argmax returning the last maximum instead of the first.
argmaxLast(l) ==
    (CHOOSE i \in DOMAIN l :
        /\ \A j \in DOMAIN l : l[j] <= l[i]
        /\ \A j \in DOMAIN l : j > i => l[j] < l[i]) - 1

\* np.argmax: the 0-based position of the first maximum of a non-empty list.
argmax(l) ==
    (CHOOSE i \in DOMAIN l :
        /\ \A j \in DOMAIN l : l[j] <= l[i]
        /\ \A j \in DOMAIN l : j < i => l[j] < l[i]) - 1

\* The question asked while a vector is routed through the tree.
goesLeftOfQuestion(element, question) == element[question[1]] <= question[2]

\* classifyLoop descending at most one level.
classifyLoopOneLevel(ns, node, element, exists_son) ==
    IF node # None /\ ns[node].question # NoQuestion /\ exists_son
    THEN IF goesLeftOfQuestion(element, ns[node].question)
         THEN ns[node].left_son ELSE ns[node].right_son
    ELSE node

\* The while loop of classify: the node it ends at, None when it stepped to
\* a missing child (node.left_son of None raises AttributeError).
RECURSIVE classifyLoop(_, _, _, _)
classifyLoop(ns, node, element, exists_son) ==
    IF node # None /\ ns[node].question # NoQuestion /\ exists_son
    THEN LET next == IF goesLeftOfQuestion(element, ns[node].question)
                     THEN ns[node].left_son ELSE ns[node].right_son
         IN  IF next = None
             THEN None
             ELSE classifyLoop(ns, next, element, ~isLeaf(ns[next]))
    ELSE node

NoGuess == [done |-> FALSE, err |-> "none", element |-> << >>, leaf |-> None,
            key |-> 0]

\* classify(root, element): the node reached and the label returned.
classify(ns, tree, element) ==
    LET node == classifyLoop(ns, tree, element, TRUE) IN
    IF node = None
    THEN [NoGuess EXCEPT !.done = TRUE, !.err = "AttributeError",
                         !.element = element]
    ELSE IF ns[node].data = << >>
    THEN [NoGuess EXCEPT !.done = TRUE, !.err = "ValueError",
                         !.element = element, !.leaf = node]
    ELSE [done |-> TRUE, err |-> "none", element |-> element, leaf |-> node,
          key |-> ns[node].data[argmax(lens(ns[node].data)) + 1].key]

---------------------------------------------------------------------------
(* Inputs. *)

\* The labels, the feature values and the numbers of features of the
\* datasets explored.  With two values per feature a tree is at most as deep
\* as the data has features.
Labels == {0, 1}
Values == {1, 2}
FeatureCounts == {1, 2}

\* The vectors of nb_features features.
Vectors(nb_features) == [0..(nb_features - 1) -> Values]

\* The dict that files the labelled vectors of s, in order, under their labels.
RECURSIVE fromPoints(_)
fromPoints(s) ==
    IF s = << >>
    THEN << >>
    ELSE LET last == s[Len(s)]
         IN  dictAppend(fromPoints(SubSeq(s, 1, Len(s) - 1)), last.label, last.v)

\* The datasets of 1..n vectors of nb_features features, as sampleDict and
\* generateCut build them: every label present holds at least one vector.
Datasets(nb_features, n) ==
    {fromPoints(s) :
        s \in UNION {[1..k -> [label : Labels, v : Vectors(nb_features)]] :
                        k \in 1..n}}

\* The lists of pairwise distinct features among 0..nb_features-1, in
\* increasing order.
FeatureLists(nb_features) ==
    {s \in UNION {Samples(nb_features, k) : k \in 1..nb_features} :
        \A i, j \in DOMAIN s : i < j => s[i] < s[j]}

\* len(list(data.values())[0][0])
numFeatures(data) == Cardinality(DOMAIN data[1].vals[1])

NoVote == [done |-> FALSE, err |-> "none", element |-> << >>, nb_labels |-> 0,
           keys |-> << >>, occ |-> << >>, result |-> 0]
NoSample == [st |-> "idle", dic |-> << >>, sample_size |-> 0, idx |-> << >>,
             d |-> << >>]
NoCutCall == [st |-> "idle", data |-> << >>, features |-> << >>, nb_cut |-> 0,
              cands |-> << >>, result |-> NoCutResult]
NoScore == [st |-> "idle", guessed_labels |-> << >>, true_labels |-> << >>,
            score |-> RZero]

\* No forest is being built or used.
NoForest ==
    /\ lastCut = NoCut
    /\ list_trees = << >>
    /\ treeFeatures = << >>
    /\ err = "none"
    /\ guess = NoGuess
    /\ vote = NoVote

\* No stand-alone call of sampleDict, score or bestCut is running.
NoCalls ==
    /\ sampleCall = NoSample
    /\ scoreCall = NoScore
    /\ cutCall = NoCutCall

\* No tree exists.
NoTree ==
    /\ nodes = << >>
    /\ stack = << >>
    /\ tFeatures = << >>
    /\ root = None

---------------------------------------------------------------------------
(* One tree: decisionTree(Node(data), nb_cut, features, max_depth), then   *)
(* classify(root, element).                                                *)

InitTree ==
    /\ \E nb_features \in FeatureCounts :
         /\ \E data \in Datasets(nb_features, MaxPoints) : nodes = <<Node(data)>>
         /\ tFeatures \in FeatureLists(nb_features)
    /\ args \in [nb_cut : 1..MaxCuts, max_depth : 0..MaxDepth]
    /\ stack = <<[node |-> 1, max_depth |-> args.max_depth]>>
    /\ root = 1
    /\ pc = "build"
    /\ NoForest
    /\ NoCalls

\* classify(root, element) on the finished tree.
Classify ==
    /\ pc = "build"
    /\ stack = << >>
    /\ \E element \in Vectors(numFeatures(nodes[root].data)) :
         guess' = classify(nodes, root, element)
    /\ pc' = "classified"
    /\ err' = guess'.err
    /\ UNCHANGED <<args, nodes, stack, lastCut, tFeatures, root, list_trees,
                   treeFeatures, vote, sampleCall, scoreCall, cutCall>>

NextTree == DecisionTreeCall \/ Classify

SpecTree == InitTree /\ [][NextTree]_vars

---------------------------------------------------------------------------
(* bestCut(node, nb_cut, features) alone. *)

InitCut ==
    /\ \E nb_features \in FeatureCounts :
       \E data \in Datasets(nb_features, MaxPoints) \cup {<< >>} :
       \E features \in FeatureLists(nb_features) :
       \E nb_cut \in 1..MaxCuts :
         cutCall = [NoCutCall EXCEPT !.st = "call", !.data = data,
                                     !.features = features, !.nb_cut = nb_cut]
    /\ sampleCall = NoSample
    /\ scoreCall = NoScore
    /\ args = << >>
    /\ pc = "idle"
    /\ NoTree
    /\ NoForest

BestCut ==
    /\ cutCall.st = "call"
    /\ \E cands \in Candidates(cutCall.data, cutCall.nb_cut, cutCall.features) :
       \E cut \in {bestCut(cutCall.data, cands)} :
         cutCall' = [cutCall EXCEPT !.st = IF cut.err = "none" THEN "done"
                                           ELSE cut.err,
                                    !.cands = cands, !.result = cut]
    /\ UNCHANGED <<args, nodes, stack, lastCut, tFeatures, root, list_trees,
                   treeFeatures, pc, err, guess, vote, sampleCall, scoreCall>>

NextCut == BestCut

SpecCut == InitCut /\ [][NextCut]_vars

---------------------------------------------------------------------------
(* sampleDict(dic, sample_size) alone. *)

\* sampleOne forgetting i -= len(v).
RECURSIVE sampleOneNoDecrement(_, _, _)
sampleOneNoDecrement(items, i, d) ==
    IF items = << >>
    THEN d
    ELSE IF i < Len(Head(items).vals)
    THEN dictAppend(d, Head(items).key, Head(items).vals[i + 1])
    ELSE sampleOneNoDecrement(Tail(items), i, d)

\* The inner loop of sampleDict for one drawn position i (0-based).
RECURSIVE sampleOne(_, _, _)
sampleOne(items, i, d) ==
    IF items = << >>
    THEN d
    ELSE IF i < Len(Head(items).vals)
    THEN dictAppend(d, Head(items).key, Head(items).vals[i + 1])
    ELSE sampleOne(Tail(items), i - Len(Head(items).vals), d)

\* The loop of sampleDict over the drawn positions idx.
RECURSIVE sampleLoop(_, _, _)
sampleLoop(dic, idx, d) ==
    IF idx = << >>
    THEN d
    ELSE sampleLoop(dic, Tail(idx), sampleOne(dic, Head(idx), d))

\* sampleDict once rd.sample has drawn idx.
sampleDict(dic, idx) == sampleLoop(dic, idx, << >>)

\* rd.sample(population, k) raises ValueError unless 0 <= k <= len(population).
sampleFails(n, k) == k > n \/ k < 0

InitSample ==
    /\ \E nb_features \in FeatureCounts :
       \E dic \in Datasets(nb_features, MaxPoints) :
       \E sample_size \in 0..(MaxPoints + 1) :
         sampleCall = [NoSample EXCEPT !.st = "call", !.dic = dic,
                                       !.sample_size = sample_size]
    /\ scoreCall = NoScore
    /\ cutCall = NoCutCall
    /\ args = << >>
    /\ pc = "idle"
    /\ NoTree
    /\ NoForest

SampleDict ==
    /\ sampleCall.st = "call"
    /\ LET n == lenDictValues(sampleCall.dic) IN
       IF sampleFails(n, sampleCall.sample_size)
       THEN sampleCall' = [sampleCall EXCEPT !.st = "ValueError"]
       ELSE \E idx \in Samples(n, sampleCall.sample_size) :
              sampleCall' = [sampleCall EXCEPT !.st = "done", !.idx = idx,
                                 !.d = sampleDict(sampleCall.dic, idx)]
    /\ UNCHANGED <<args, nodes, stack, lastCut, tFeatures, root, list_trees,
                   treeFeatures, pc, err, guess, vote, scoreCall, cutCall>>

NextSample == SampleDict

SpecSample == InitSample /\ [][NextSample]_vars

---------------------------------------------------------------------------
(* score(guessed_labels, true_labels) alone. *)

\* for i in range(n): score += (int(guessed_labels[i]) == int(true_labels[i]))
\* from position i (1-based) on; true_labels[i] raises IndexError past its end.
RECURSIVE scoreLoop(_, _, _, _)
scoreLoop(guessed_labels, true_labels, i, acc) ==
    IF i > Len(guessed_labels)
    THEN [err |-> "none", score |-> acc]
    ELSE IF i > Len(true_labels)
    THEN [err |-> "IndexError", score |-> acc]
    ELSE scoreLoop(guessed_labels, true_labels, i + 1,
                   acc + (IF guessed_labels[i] = true_labels[i] THEN 1 ELSE 0))

\* score = score/n
scoreDivide(count, n) ==
    IF n = 0
    THEN [err |-> "ZeroDivisionError", score |-> RZero]
    ELSE [err |-> "none", score |-> RNorm(<<count, n>>)]

score(guessed_labels, true_labels) ==
    LET counted == scoreLoop(guessed_labels, true_labels, 1, 0) IN
    IF counted.err # "none"
    THEN [err |-> counted.err, score |-> RZero]
    ELSE scoreDivide(counted.score, Len(guessed_labels))

LabelLists == UNION {[1..n -> Labels] : n \in 0..MaxScoreLen}

InitScore ==
    /\ \E g \in LabelLists : \E t \in LabelLists :
         scoreCall = [NoScore EXCEPT !.st = "call", !.guessed_labels = g,
                                     !.true_labels = t]
    /\ sampleCall = NoSample
    /\ cutCall = NoCutCall
    /\ args = << >>
    /\ pc = "idle"
    /\ NoTree
    /\ NoForest

Score ==
    /\ scoreCall.st = "call"
    /\ \E r \in {score(scoreCall.guessed_labels, scoreCall.true_labels)} :
         scoreCall' = [scoreCall EXCEPT
                          !.st = IF r.err = "none" THEN "done" ELSE r.err,
                          !.score = r.score]
    /\ UNCHANGED <<args, nodes, stack, lastCut, tFeatures, root, list_trees,
                   treeFeatures, pc, err, guess, vote, sampleCall, cutCall>>

NextScore == Score

SpecScore == InitScore /\ [][NextScore]_vars

---------------------------------------------------------------------------
(* randomForest(data, nb_trees, sample_size, nb_cut, max_depth), then      *)
(* forestClassify(list_trees, element, nb_labels).                         *)

\* int(sqrt(n))
intSqrt(n) == CHOOSE k \in 0..n : k * k <= n /\ n < (k + 1) * (k + 1)

\* The size of the feature sample of a tree.
numTreeFeatures(nb_features) == intSqrt(nb_features) + 1

\* occ[key] += 1 for the keys in order; occ[key] raises IndexError past
\* the end of occ.
RECURSIVE tally(_, _)
tally(keys, occ) ==
    IF keys = << >>
    THEN [err |-> "none", occ |-> occ]
    ELSE IF Head(keys) + 1 > Len(occ)
    THEN [err |-> "IndexError", occ |-> occ]
    ELSE tally(Tail(keys), [occ EXCEPT ![Head(keys) + 1] = @ + 1])

\* forestClassify; occ[l + 1] is the code's occ[l].
forestClassify(ns, trees, element, nb_labels) ==
    LET guesses == [i \in DOMAIN trees |-> classify(ns, trees[i], element)]
        keys == [i \in DOMAIN trees |-> guesses[i].key]
        counted == tally(keys, [l \in 1..(nb_labels + 1) |-> 0])
        base == [NoVote EXCEPT !.done = TRUE, !.element = element,
                               !.nb_labels = nb_labels]
    IN  IF \E i \in DOMAIN trees : guesses[i].err # "none"
        THEN [base EXCEPT !.err =
                 guesses[CHOOSE i \in DOMAIN trees :
                            /\ guesses[i].err # "none"
                            /\ \A j \in 1..(i - 1) : guesses[j].err = "none"].err]
        ELSE IF counted.err # "none"
        THEN [base EXCEPT !.err = counted.err, !.keys = keys]
        ELSE [base EXCEPT !.keys = keys, !.occ = counted.occ,
                          !.result = argmax(counted.occ)]

\* The values of nb_labels explored.
NbLabels == {0, 1}

Init ==
    /\ \E nb_features \in FeatureCounts :
       \E data \in Datasets(nb_features, MaxForestPoints) :
         args \in [data : {data}, nb_trees : 0..MaxTrees,
                   sample_size : 0..(lenDictValues(data) + 1),
                   nb_cut : 1..MaxCuts, max_depth : 0..MaxDepth]
    /\ pc = "loop"
    /\ NoTree
    /\ NoForest
    /\ NoCalls

\* One iteration of randomForest up to the call of decisionTree: the sample,
\* the root and the features of the tree.
RFBeginTree ==
    /\ pc = "loop"
    /\ Len(list_trees) < args.nb_trees
    /\ LET n == lenDictValues(args.data)
           nb_features == numFeatures(args.data)
       IN  IF sampleFails(n, args.sample_size)
              \/ sampleFails(nb_features, numTreeFeatures(nb_features))
           THEN /\ err' = "ValueError"
                /\ pc' = "failed"
                /\ UNCHANGED <<nodes, stack, tFeatures, root>>
           ELSE \E idx \in Samples(n, args.sample_size) :
                \E features \in Samples(nb_features,
                                        numTreeFeatures(nb_features)) :
                  /\ nodes' = Append(nodes, Node(sampleDict(args.data, idx)))
                  /\ root' = Len(nodes) + 1
                  /\ tFeatures' = features
                  /\ stack' = <<[node |-> Len(nodes) + 1,
                                 max_depth |-> args.max_depth]>>
                  /\ pc' = "build"
                  /\ err' = err
    /\ UNCHANGED <<args, lastCut, list_trees, treeFeatures, guess, vote,
                   sampleCall, scoreCall, cutCall>>

\* decisionTree has returned: list_trees.append(root).
RFAppend ==
    /\ pc = "build"
    /\ stack = << >>
    /\ list_trees' = Append(list_trees, root)
    /\ treeFeatures' = Append(treeFeatures, tFeatures)
    /\ lastCut' = NoCut
    /\ pc' = "loop"
    /\ UNCHANGED <<args, nodes, stack, tFeatures, root, err, guess, vote,
                   sampleCall, scoreCall, cutCall>>

\* return list_trees
RFReturn ==
    /\ pc = "loop"
    /\ Len(list_trees) = args.nb_trees
    /\ pc' = "done"
    /\ UNCHANGED <<args, nodes, stack, lastCut, tFeatures, root, list_trees,
                   treeFeatures, err, guess, vote, sampleCall, scoreCall,
                   cutCall>>

ForestClassify ==
    /\ pc = "done"
    /\ \E element \in Vectors(numFeatures(args.data)) :
       \E nb_labels \in NbLabels :
         vote' = forestClassify(nodes, list_trees, element, nb_labels)
    /\ pc' = "voted"
    /\ err' = vote'.err
    /\ UNCHANGED <<args, nodes, stack, lastCut, tFeatures, root, list_trees,
                   treeFeatures, guess, sampleCall, scoreCall, cutCall>>

Next == RFBeginTree \/ DecisionTreeCall \/ RFAppend \/ RFReturn \/ ForestClassify

Spec == Init /\ [][Next]_vars

---------------------------------------------------------------------------
(* Properties. *)

\* The labelled vectors <<key, v>> of a dict, in iteration order.
RECURSIVE labelled(_)
labelled(dic) ==
    IF dic = << >>
    THEN << >>
    ELSE [i \in DOMAIN Head(dic).vals |-> <<Head(dic).key, Head(dic).vals[i]>>]
         \o labelled(Tail(dic))

RECURSIVE SeqBag(_)
SeqBag(s) == IF s = << >> THEN EmptyBag ELSE SetToBag({Head(s)}) (+) SeqBag(Tail(s))

\* The number of father links from node n up to the root of its tree.
RECURSIVE level(_, _)
level(ns, n) == IF ns[n].father = None THEN 0 ELSE 1 + level(ns, ns[n].father)

\* Node n lies on the path element takes from the root of n's tree, going
\* left exactly where element's value is <= the question's threshold.
RECURSIVE routedTo(_, _, _)
routedTo(ns, n, element) ==
    \/ ns[n].father = None
    \/ LET f == ns[n].father
           q == ns[f].question
       IN  /\ q # NoQuestion
           /\ \/ ns[f].left_son = n /\ element[q[1]] <= q[2]
              \/ ns[f].right_son = n /\ ~(element[q[1]] <= q[2])
           /\ routedTo(ns, f, element)

\* C1: classify(root, v) ends at a node without children on v's route and
\* returns a key of that leaf's partition whose vector count is maximal,
\* the first such key in the partition's iteration order.
C1_ClassifyLeafMajority ==
    guess.done =>
        /\ guess.err = "none"
        /\ guess.leaf \in DOMAIN nodes
        /\ nodes[guess.leaf].left_son = None
        /\ nodes[guess.leaf].right_son = None
        /\ routedTo(nodes, guess.leaf, guess.element)
        /\ LET data == nodes[guess.leaf].data IN
           \E i \in DOMAIN data :
              /\ data[i].key = guess.key
              /\ \A j \in DOMAIN data : Len(data[j].vals) <= Len(data[i].vals)
              /\ \A j \in 1..(i - 1) : Len(data[j].vals) < Len(data[i].vals)

\* A classification that ended below the root at a leaf whose first two
\* labels tie, returning the first of them.
C1_Witness ==
    /\ guess.done
    /\ guess.err = "none"
    /\ guess.leaf # root
    /\ Len(nodes[guess.leaf].data) = 2
    /\ Len(nodes[guess.leaf].data[1].vals) = Len(nodes[guess.leaf].data[2].vals)
    /\ guess.key = nodes[guess.leaf].data[1].key

\* C3: the tree is never deeper than max_depth, every pending call carries
\* the budget max_depth minus the level of its node, and with max_depth = 0
\* the root stays a leaf without question.
C3_DepthBounded ==
    pc \in {"build", "classified"} =>
        /\ depth(nodes, root) <= args.max_depth
        /\ \A n \in DOMAIN nodes : level(nodes, n) <= args.max_depth
        /\ \A i \in DOMAIN stack :
              stack[i].max_depth = args.max_depth - level(nodes, stack[i].node)
        /\ args.max_depth = 0 =>
              /\ nodes[root].question = NoQuestion
              /\ nodes[root].left_son = None
              /\ nodes[root].right_son = None

\* A finished tree as deep as max_depth >= 1 allows with a leaf at that
\* depth that still holds different vectors under different labels.
C3_Witness ==
    /\ pc = "build"
    /\ stack = << >>
    /\ args.max_depth >= 1
    /\ depth(nodes, root) = args.max_depth
    /\ \E n \in DOMAIN nodes :
          /\ isLeaf(nodes[n])
          /\ level(nodes, n) = args.max_depth
          /\ \E x, y \in {labelled(nodes[n].data)[i] :
                             i \in DOMAIN labelled(nodes[n].data)} :
                x[1] # y[1] /\ x[2] # y[2]

\* The entries of data restricted to the vectors below (side = "left") or
\* not below (side = "right") threshold t on feature f; entries left without
\* vector are dropped.
sideOf(data, f, t, side) ==
    SelectSeq([i \in DOMAIN data |->
                  [key |-> data[i].key,
                   vals |-> SelectSeq(data[i].vals,
                               LAMBDA v : IF side = "left" THEN v[f] < t
                                          ELSE v[f] >= t)]],
              LAMBDA e : e.vals # << >>)

\* The labelled vectors of the leaves among nodes 1..k, as a bag.
RECURSIVE leavesBag(_, _)
leavesBag(ns, k) ==
    IF k = 0
    THEN EmptyBag
    ELSE leavesBag(ns, k - 1)
         (+) (IF isLeaf(ns[k]) THEN SeqBag(labelled(ns[k].data)) ELSE EmptyBag)

C10_TrainingAndInferenceAgree ==
    (guess.done /\ guess.err = "none"
       /\ \E i \in DOMAIN points(nodes[root].data) :
             points(nodes[root].data)[i] = guess.element) =>
        \E i \in DOMAIN points(nodes[guess.leaf].data) :
           points(nodes[guess.leaf].data)[i] = guess.element

\* The number of positions of the sequence s holding x.
count(s, x) == Cardinality({i \in DOMAIN s : s[i] = x})

\* C2: for a forest of at least one tree whose per-tree predictions all lie
\* in 0..nb_labels, forestClassify returns the label with the most votes,
\* the lowest one among those sharing the maximum.
C2_ForestMajorityLowestTie ==
    LET preds == [i \in DOMAIN list_trees |->
                     classify(nodes, list_trees[i], vote.element)]
        votes(l) == count([i \in DOMAIN preds |-> preds[i].key], l)
    IN  (/\ vote.done
         /\ Len(list_trees) >= 1
         /\ \A i \in DOMAIN preds :
               preds[i].err = "none" /\ preds[i].key \in 0..vote.nb_labels) =>
            /\ vote.err = "none"
            /\ vote.result \in 0..vote.nb_labels
            /\ \A l \in 0..vote.nb_labels :
                  /\ votes(l) <= votes(vote.result)
                  /\ l < vote.result => votes(l) < votes(vote.result)

\* A vote of two trees, the first predicting 1 and the second 0, that
\* returned 0.
C2_Witness ==
    /\ vote.done
    /\ vote.err = "none"
    /\ vote.keys = <<1, 0>>
    /\ vote.result = 0

\* C4: sampleDict with 0 <= sample_size <= total count files exactly the
\* vectors at sample_size pairwise distinct positions of the flattened
\* source, each under its source label; a larger sample_size fails.
C4_SampleDistinctPositions ==
    LET src == labelled(sampleCall.dic)
        n == lenDictValues(sampleCall.dic)
        idx == sampleCall.idx
        d == sampleCall.d
    IN  /\ sampleCall.st = "ValueError" <=>
              (sampleCall.st # "call" /\ sampleCall.sample_size > n)
        /\ sampleCall.st = "done" =>
              /\ Len(idx) = sampleCall.sample_size
              /\ \A i \in DOMAIN idx : idx[i] \in 0..(n - 1)
              /\ \A i, j \in DOMAIN idx : i # j => idx[i] # idx[j]
              /\ lenDictValues(d) = sampleCall.sample_size
              /\ \A i, j \in DOMAIN d : i # j => d[i].key # d[j].key
              /\ \A i \in DOMAIN d :
                    /\ d[i].vals # << >>
                    /\ LET own == SelectSeq(idx,
                                     LAMBDA pos : src[pos + 1][1] = d[i].key)
                       IN  d[i].vals = [j \in DOMAIN own |-> src[own[j] + 1][2]]
              /\ \A i \in DOMAIN idx :
                    \E j \in DOMAIN d : d[j].key = src[idx[i] + 1][1]

\* A sample of two or more vectors, fewer than the source holds, that
\* spans two labels.
C4_Witness ==
    /\ sampleCall.st = "done"
    /\ sampleCall.sample_size >= 2
    /\ sampleCall.sample_size < lenDictValues(sampleCall.dic)
    /\ Len(sampleCall.d) = 2

\* C5: for a dataset with at least one feature and 1 <= sample_size <= total
\* count, randomForest returns nb_trees trees, each built with
\* floor(sqrt(nb_features)) + 1 distinct features of 0..nb_features-1, and
\* every question of a tree asks about one of its features.
C5_ForestOfNumTrees ==
    LET nb_features == numFeatures(args.data)
        treeOf(n) == CHOOSE t \in DOMAIN list_trees :
                        /\ list_trees[t] <= n
                        /\ \A u \in DOMAIN list_trees :
                              list_trees[u] <= n => list_trees[u] <= list_trees[t]
    IN  (nb_features >= 1 /\ args.sample_size \in 1..lenDictValues(args.data)) =>
            /\ pc # "failed"
            /\ pc \in {"done", "voted"} =>
                  /\ Len(list_trees) = args.nb_trees
                  /\ \A t \in DOMAIN treeFeatures :
                        /\ Len(treeFeatures[t]) = intSqrt(nb_features) + 1
                        /\ \A i \in DOMAIN treeFeatures[t] :
                              treeFeatures[t][i] \in 0..(nb_features - 1)
                        /\ \A i, j \in DOMAIN treeFeatures[t] :
                              i # j => treeFeatures[t][i] # treeFeatures[t][j]
                  /\ \A n \in DOMAIN nodes :
                        nodes[n].question # NoQuestion =>
                           \E i \in DOMAIN treeFeatures[treeOf(n)] :
                              treeFeatures[treeOf(n)][i] = nodes[n].question[1]

\* C6: score returns 0 for an empty guessed_labels and, for lists of equal
\* non-zero length, the number of agreeing positions divided by the length.
C6_ScoreIsAccuracy ==
    (/\ scoreCall.st # "call"
     /\ Len(scoreCall.guessed_labels) = Len(scoreCall.true_labels)) =>
        /\ scoreCall.st = "done"
        /\ LET n == Len(scoreCall.guessed_labels)
               agree == Cardinality({i \in 1..n :
                           scoreCall.guessed_labels[i] = scoreCall.true_labels[i]})
           IN  IF n = 0
               THEN RIsZero(scoreCall.score)
               ELSE scoreCall.score[1] * n = agree * scoreCall.score[2]

degenerate(c) == Len(c.c1) = 0 \/ Len(c.c2) = 0

\* C7 as claimed: if a drawn candidate has both sides non-empty, the split
\* returned has both sides non-empty; a split with an empty side is returned
\* only when every drawn candidate has one, and is then the first drawn.
C7_DegenerateOnlyIfAllAre ==
    cutCall.st = "done" =>
        LET cands == cutCall.cands
            res == cutCall.result
        IN  /\ (\E i \in DOMAIN cands : ~degenerate(cands[i])) => ~degenerate(res)
            /\ degenerate(res) =>
                  /\ \A i \in DOMAIN cands : degenerate(cands[i])
                  /\ res.c1 = cands[1].c1 /\ res.c2 = cands[1].c2
                  /\ res.question = <<cands[1].random_feature[1],
                                      cands[1].decisional_value>>

\* C7 as amended: bestCut returns the earliest candidate of greatest gain
\* among the first candidate and the later candidates with both sides
\* non-empty; the split returned has an empty side only if it is the first
\* candidate's, its gain is 0 and no later candidate with both sides
\* non-empty has a gain above 0.
C7_FirstOfGreatestGain ==
    cutCall.st = "done" =>
        LET cands == cutCall.cands
            res == cutCall.result
            gain(i) == infoGain(cutCall.data, cands[i].c1, cands[i].c2)
            kept(i) == i = 1 \/ ~degenerate(cands[i])
            k == CHOOSE i \in DOMAIN cands :
                    /\ kept(i)
                    /\ \A j \in DOMAIN cands :
                          kept(j) => ~RLess(gain(i), gain(j))
                    /\ \A j \in 1..(i - 1) : kept(j) => RLess(gain(j), gain(i))
        IN  /\ Len(cands) = Max(cutCall.nb_cut, 1)
            /\ res.best_info = gain(k)
            /\ res.c1 = cands[k].c1
            /\ res.c2 = cands[k].c2
            /\ res.question = <<cands[k].random_feature[1],
                                cands[k].decisional_value>>
            /\ degenerate(res) =>
                  /\ degenerate(cands[1])
                  /\ res.c1 = cands[1].c1 /\ res.c2 = cands[1].c2
                  /\ RIsZero(res.best_info)
                  /\ \A j \in DOMAIN cands :
                        ~degenerate(cands[j]) => ~RLess(RZero, gain(j))

\* bestCut returned the first candidate, which has an empty side, although
\* a later candidate has both sides non-empty.
C7_Witness ==
    /\ cutCall.st = "done"
    /\ degenerate(cutCall.result)
    /\ \E i \in DOMAIN cutCall.cands : ~degenerate(cutCall.cands[i])

\* Under SpecCut: bestCutOutcomes is the set of the results of bestCut over
\* the candidate sequences.
OutcomesAreBestCuts ==
    cutCall.st = "call" =>
        bestCutOutcomes(cutCall.data, cutCall.nb_cut, cutCall.features)
          = {bestCut(cutCall.data, cands) :
                cands \in Candidates(cutCall.data, cutCall.nb_cut,
                                     cutCall.features)}

====
